---- MODULE Spec2Model ----
(***************************************************************************)
(* The two Haraka queue plugins of plugins/queue: the Metadata Stage       *)
(* (firestore plugin, persist_email_details) and the Archival Stage        *)
(* (gcp_storage plugin, save_email_in_bucket), with the blob store, the    *)
(* document store and the hook scheduler they talk to.                     *)
(*                                                                         *)
(* Every `await` of the source is a point where the run is suspended: the  *)
(* call is issued by the action that reaches it and settled (resolved or   *)
(* rejected) by a later action, so runs of different transactions          *)
(* interleave exactly at the awaits.                                       *)
(***************************************************************************)
EXTENDS Integers, Sequences, FiniteSets, TLC

\* Number of transactions (deliveries) the coordinator hands to the pipeline.
NumTxns == 2

Txns == 1..NumTxns

\* Haraka's hook return codes, as the plugin sandbox exposes them.
OK == "OK"
DENYSOFT == "DENYSOFT"

\* Argument lists of the continuation `next`.
NoArgs == <<>>
AcceptArgs == <<OK>>

\* Characters are their ASCII code points; 60 is '<', 62 is '>', 97.. are
\* letters.  The character class of the regular expression /[<>]/g.
AngleBrackets == {60, 62}

\* An absent optional value (undefined / null) is the empty sequence, a
\* present one the one-element sequence.
Absent == <<>>

EmptyRecord == [k \in {} |-> 0]

(***************************************************************************)
(* The environment: the messages senders deliver, the recipient collection *)
(* of the document store, the plugin configuration.                        *)
(***************************************************************************)

\* The messages that can arrive, as mailparser presents them.  messageId is
\* the Message-ID header as written by the sender (empty when the header is
\* missing), to is the text form of the To header.  The third identifier,
\* <c<d>>, has angle brackets inside its enclosing pair.
MessageCatalog ==
  << [messageId |-> <<60, 97, 62>>, subject |-> "s1", from |-> "x@y", to |-> "one@x"],
     [messageId |-> <<>>,           subject |-> "s2", from |-> "x@y", to |-> "two@x"],
     [messageId |-> <<60, 99, 60, 100, 62, 62>>, subject |-> "s3", from |-> "x@y", to |-> "zero@x"] >>

Msgs == DOMAIN MessageCatalog

\* The raw bytes of message m: two bytes that no other message shares.
RawMessage(m) == <<10 * m + 1, 10 * m + 2>>

\* What a parse yields for input that is no complete message.
MalformedEmail == [messageId |-> <<>>, subject |-> "", from |-> "", to |-> ""]

\* The recipient collection (cfg.firestore.merchantsPaymentNotificationsCollection)
\* in document-id order: one record for one@x, two for two@x, none for zero@x.
RecipientCollection ==
  << [id |-> "r1", notifications_email |-> "one@x"],
     [id |-> "r2", notifications_email |-> "two@x"],
     [id |-> "r3", notifications_email |-> "two@x"] >>

\* cfg.storage.bucketName
BucketName == "bucket"

\* The shapes of the connection argument a queue hook can be called with.
ConnectionShapes == {"noTransaction", "noStream", "complete"}

\* Which queue hooks are registered, in order.
Pipelines == {"archival+metadata", "metadata"}

VARIABLES
  serverNotes,   \* server.notes: the storage client handles
  initHooks,     \* per plugin and init hook: how its invocation ended
  cfg,           \* the loaded configuration
  txn,           \* per transaction: the connection, its notes, both stage runs
  blobs,         \* the blob store: a set of objects
  docs           \* the document store: the metadata sub-collections

vars == <<serverNotes, initHooks, cfg, txn, blobs, docs>>

(***************************************************************************)
(* Pure functions of the plugins.                                          *)
(***************************************************************************)

\* simpleParser on a complete buffer or stream.
simpleParser(input) ==
  IF \E m \in Msgs : RawMessage(m) = input
    THEN MessageCatalog[CHOOSE m \in Msgs : RawMessage(m) = input]
    ELSE MalformedEmail

\* The chunks joined last to first.
RECURSIVE BufferConcatReversed(_)
BufferConcatReversed(chunks) ==
  IF chunks = <<>> THEN <<>> ELSE BufferConcatReversed(Tail(chunks)) \o Head(chunks)

\* Buffer.concat(chunks)
RECURSIVE BufferConcat(_)
BufferConcat(chunks) ==
  IF chunks = <<>> THEN <<>> ELSE Head(chunks) \o BufferConcat(Tail(chunks))

\* str.replace(/[<>]/g, '')
StripAngleBrackets(s) == SelectSeq(s, LAMBDA c : c \notin AngleBrackets)

\* crypto.randomBytes(16).toString('hex') as drawn by the run of transaction
\* t: one symbol standing for the 32 hex digits, different for every draw
\* (a stage run draws at most once).
RandomHex(t) == 1000 + t

\* Date.now() / new Date() as read by the run of transaction t.
Now(t) == 2000 + t

\* generateMessageId of the gcp_storage plugin.
generateMessageId_storage(email, t) ==
  IF email.messageId # <<>>
    THEN StripAngleBrackets(email.messageId)
    ELSE <<RandomHex(t), 45, Now(t)>>

\* generateMessageId of the firestore plugin.
generateMessageId_firestore(email, t) ==
  IF email.messageId # <<>>
    THEN StripAngleBrackets(email.messageId)
    ELSE <<RandomHex(t)>>

\* `emails/${messageId}.eml`
ObjectName(messageId) == [prefix |-> "emails/", id |-> messageId, suffix |-> ".eml"]

\* `gs://${bucketName}/${objectName}`
StorageUrl(bucketName, objectName) ==
  [scheme |-> "gs://", bucket |-> bucketName, path |-> objectName]

\* The object written into transaction.notes.storageReference.
StorageReference(bucketName, objectName, messageId) ==
  [bucketName |-> bucketName, objectName |-> objectName,
   messageId |-> messageId, storageUrl |-> StorageUrl(bucketName, objectName)]

constructObjectMetadata(parsedEmail, messageId) ==
  [contentType |-> "message/rfc822", resumable |-> FALSE,
   metadata |-> [messageId |-> messageId, subject |-> parsedEmail.subject,
                 from |-> parsedEmail.from, to |-> parsedEmail.to]]

\* constructMessageDetails with the storage fields left out.
constructMessageDetailsWithoutReference(email, messageId, storageReference, t) ==
  [messageId |-> messageId, subject |-> email.subject, from |-> email.from,
   to |-> email.to, receivedDate |-> Now(t)]

\* storageReference is Absent or <<reference>>; the spread adds the three
\* storage fields only when it is present.
constructMessageDetails(email, messageId, storageReference, t) ==
  [messageId |-> messageId, subject |-> email.subject, from |-> email.from,
   to |-> email.to, receivedDate |-> Now(t)]
  @@ (IF storageReference # Absent
        THEN [bucketName |-> storageReference[1].bucketName,
              objectName |-> storageReference[1].objectName,
              storageUrl |-> storageReference[1].storageUrl]
        ELSE EmptyRecord)

\* The identifier resolved without looking at the published reference.
ResolveMessageIdIndependently(storageReference, email, t) ==
  generateMessageId_firestore(email, t)

\* const messageId = storageReference ? storageReference.messageId
\*                                    : generateMessageId(email)
ResolveMessageId(storageReference, email, t) ==
  IF storageReference # Absent
    THEN storageReference[1].messageId
    ELSE generateMessageId_firestore(email, t)

\* Whether resolving the identifier calls crypto.randomBytes.
DrawsRandom(storageReference, email) ==
  storageReference = Absent /\ email.messageId = <<>>

(***************************************************************************)
(* The storage services.                                                   *)
(***************************************************************************)

\* collection(...).where('notifications_email', '==', to).get(): .docs
QueryRecipients(to) ==
  SelectSeq(RecipientCollection, LAMBDA r : r.notifications_email = to)

\* A write that adds a document instead of replacing the one keyed by id.
DocumentAdd(store, parent, id, data) ==
  store \cup {[parent |-> parent, id |-> id, data |-> data]}

\* ref.collection(sub).doc(id).set(data): a full overwrite of document id.
DocumentSet(store, parent, id, data) ==
  {d \in store : ~(d.parent = parent /\ d.id = id)}
    \cup {[parent |-> parent, id |-> id, data |-> data]}

\* A save that resolves without writing the object.
BlobSaveNothing(store, bucketName, objectName, body) == store

\* bucket.file(objectName).save(buffer): the object is created or replaced;
\* the new object carries no custom metadata yet.
BlobSave(store, bucketName, objectName, body) ==
  {o \in store : ~(o.bucketName = bucketName /\ o.objectName = objectName)}
    \cup {[bucketName |-> bucketName, objectName |-> objectName,
           body |-> body, metadata |-> EmptyRecord]}

\* file.setMetadata(objectMetadata) on the object written before.
BlobSetMetadata(store, bucketName, objectName, objectMetadata) ==
  {IF o.bucketName = bucketName /\ o.objectName = objectName
     THEN [o EXCEPT !.metadata = objectMetadata] ELSE o : o \in store}

\* The hooks each plugin registers its initializer on (lines 10-11, 165-166),
\* each run once in a process, in any order.
InitHooks == {"init_master", "init_child"}
Plugins == {"firestore", "gcp_storage"}

\* server.notes.<client> before any initializer ran, and the handles the
\* constructors return: the k-th client constructed is handle k.
NoClient == 0
NewClient(handle) == handle + 1
FirstClient == NewClient(NoClient)

(***************************************************************************)
(* A transaction before the coordinator has run its queue hooks.           *)
(***************************************************************************)
FreshTxn ==
  [accepted |-> FALSE, shape |-> "noTransaction", msg |-> 0,
   notes |-> [storageReference |-> Absent],
   \* the message stream: "unread", "flowing", "ended", "errored" or
   \* "unpiped", and the bytes it has emitted while flowing or ended
   emitted |-> 0, streamState |-> "unread",
   \* the run of save_email_in_bucket
   apc |-> "idle", chunks |-> <<>>, rawEmailBuffer |-> <<>>,
   aMessageId |-> <<>>, aObjectMetadata |-> EmptyRecord,
   aIssued |-> <<>>, aFailed |-> "", aCalls |-> <<>>,
   \* the run of persist_email_details
   mpc |-> "idle", mStorageReference |-> Absent, mMessageId |-> <<>>,
   mMessageDetails |-> EmptyRecord, mParent |-> "",
   mIssued |-> <<>>, mFailed |-> "", mCalls |-> <<>>]

Init ==
  /\ serverNotes = [firestore |-> NoClient, gcpStorage |-> NoClient]
  /\ initHooks = [p \in Plugins |-> [h \in InitHooks |-> "notRun"]]
  /\ cfg \in {c \in [plugins : Pipelines, isSingleHandler : BOOLEAN] :
                c.plugins = "metadata" => c.isSingleHandler}
  /\ txn = [t \in Txns |-> FreshTxn]
  /\ blobs = {}
  /\ docs = {}


(***************************************************************************)
(* Start-up hooks (init_master, init_child).                               *)
(***************************************************************************)

\* An initializer that constructs a client on every invocation.
ClientMissingAlways(handle) == TRUE

\* !server.notes.firestore, !server.notes.gcpStorage
ClientMissing(handle) == handle = NoClient

\* initialize_firestore(next, server), run for hook h:
\* if (!server.notes.firestore) server.notes.firestore = new Firestore(...);
\* next()
initialize_firestore(h) ==
  /\ initHooks["firestore"][h] = "notRun"
  /\ serverNotes' = [serverNotes EXCEPT !.firestore =
                       IF ClientMissing(@) THEN NewClient(@) ELSE @]
  /\ initHooks' = [initHooks EXCEPT !["firestore"][h] = "continued"]
  /\ UNCHANGED <<cfg, txn, blobs, docs>>

\* initialize_storage(next, server), run for hook h:
\* if (!server.notes.gcpStorage) server.notes.gcpStorage = new Storage(...);
\* next()
initialize_storage(h) ==
  /\ initHooks["gcp_storage"][h] = "notRun"
  /\ serverNotes' = [serverNotes EXCEPT !.gcpStorage =
                       IF ClientMissing(@) THEN NewClient(@) ELSE @]
  /\ initHooks' = [initHooks EXCEPT !["gcp_storage"][h] = "continued"]
  /\ UNCHANGED <<cfg, txn, blobs, docs>>

\* The server takes connections once every init hook has run.
StartupDone == \A p \in Plugins, h \in InitHooks : initHooks[p][h] # "notRun"

(***************************************************************************)
(* The stages, as functions of the transaction record r.                   *)
(***************************************************************************)

\* The entry guard left out.
HasTransactionAlways(shape) == TRUE

\* connection && connection.transaction
HasTransaction(shape) == shape # "noTransaction"

\* connection && connection.transaction && connection.transaction.message_stream
HasMessageStream(shape) == shape = "complete"

\* A catch block that reports success.
persist_catch_accepts == <<OK>>

\* The arguments each catch block passes to next.
persist_catch_args == <<DENYSOFT, "Persistence error">>
save_catch_args == <<DENYSOFT, "Persistence error">>

\* The success branch ignoring queue.isSingleHandler.
save_success_accepts(isSingleHandler) == AcceptArgs

\* The argument of next after a successful archive (lines 253-259).
save_success_args(isSingleHandler) == IF isSingleHandler THEN AcceptArgs ELSE NoArgs

\* The argument of next after a successful metadata write.
persist_success_args == AcceptArgs

\* The reference kept in one place shared by all transactions.
notes_storageReferenceShared(r) ==
  LET holders == {u \in Txns : txn[u].notes.storageReference # Absent}
  IN  IF holders # {}
        THEN txn[CHOOSE u \in holders : TRUE].notes.storageReference
        ELSE r.notes.storageReference

\* connection.transaction.notes.storageReference || null
notes_storageReference(r) == r.notes.storageReference

\* persist_email_details from its call to its first await.  Without a
\* transaction it returns next(); otherwise it reads the notes and awaits
\* parseEmail(connection).
persist_email_details(r) ==
  IF ~HasTransaction(r.shape)
    THEN [r EXCEPT !.mpc = "returned", !.mCalls = Append(@, NoArgs)]
    ELSE [r EXCEPT !.mpc = "parseEmail",
                   !.mStorageReference = notes_storageReference(r),
                   !.mIssued = Append(@, "parseEmail")]

\* The catch block of persist_email_details, entered from the failed step.
persist_catch(r, step) ==
  [r EXCEPT !.mpc = "returned", !.mFailed = step,
            !.mCalls = Append(@, persist_catch_args)]

\* A scheduler that runs the next queue hook whatever the code.
archival_next_ignores_code(r, args) ==
  LET called == [r EXCEPT !.aCalls = Append(@, args)]
  IN  IF Len(called.aCalls) = 1 /\ cfg.plugins = "archival+metadata"
        THEN persist_email_details(called)
        ELSE called

\* The hook scheduler on a call of the archival stage's continuation: the
\* first call with no argument runs the next registered queue hook, which is
\* persist_email_details (register_hook('queue', ...) of both plugins); a
\* call with a code ends the pipeline for the transaction.
archival_next(r, args) ==
  LET called == [r EXCEPT !.aCalls = Append(@, args)]
  IN  IF args = NoArgs /\ Len(called.aCalls) = 1 /\ cfg.plugins = "archival+metadata"
        THEN persist_email_details(called)
        ELSE called

\* A catch block that issues a failed upload once more.
save_catch_retries(r, step) ==
  IF step = "save" /\ Len(r.aIssued) < 3
    THEN [r EXCEPT !.apc = "save", !.aIssued = Append(@, "save")]
    ELSE archival_next([r EXCEPT !.apc = "returned", !.aFailed = step], save_catch_args)

\* The catch block of save_email_in_bucket, entered from the failed step.
save_catch(r, step) ==
  archival_next([r EXCEPT !.apc = "returned", !.aFailed = step], save_catch_args)

\* save_email_in_bucket from its call to its first await.  Without a message
\* stream it returns next(); otherwise it pipes the stream into the capture
\* stream and awaits the capture promise.
save_email_in_bucket(r) ==
  IF ~(HasTransaction(r.shape) /\ HasMessageStream(r.shape))
    THEN archival_next([r EXCEPT !.apc = "returned"], NoArgs)
    ELSE [r EXCEPT !.apc = "capture", !.streamState = "flowing"]

\* The continuation called before the reference is published.
save_continue_then_publish(r, throws) ==
  LET objectName == ObjectName(r.aMessageId)
      called == archival_next([r EXCEPT !.apc = "returned"],
                              save_success_args(cfg.isSingleHandler))
      published == [called EXCEPT !.notes.storageReference =
                      <<StorageReference(BucketName, objectName, r.aMessageId)>>]
  IN  IF throws THEN save_catch(published, "next") ELSE published

\* Lines 243-257: publish the reference, then call next; a continuation that
\* throws is caught by the surrounding try and next is called again.
save_publish_and_continue(r, throws) ==
  LET objectName == ObjectName(r.aMessageId)
      published == [r EXCEPT !.apc = "returned",
                             !.notes.storageReference =
                                <<StorageReference(BucketName, objectName, r.aMessageId)>>]
      called == archival_next(published, save_success_args(cfg.isSingleHandler))
  IN  IF throws THEN save_catch(called, "next") ELSE called

\* Lines 83-84: call next(OK); a continuation that throws is caught by the
\* surrounding try and next is called again.
persist_continue(r, throws) ==
  LET called == [r EXCEPT !.mpc = "returned",
                          !.mCalls = Append(@, persist_success_args)]
  IN  IF throws THEN persist_catch(called, "next") ELSE called

\* A continuation call can throw only where it ends the hook chain and the
\* scheduler responds to the client: the calls with the accept code.
CanThrow(args) == args = AcceptArgs

(***************************************************************************)
(* The coordinator accepts a message and runs the queue hooks.             *)
(***************************************************************************)
run_queue_hooks(t, shape, m) ==
  /\ StartupDone
  /\ serverNotes.firestore # NoClient /\ serverNotes.gcpStorage # NoClient
  /\ ~txn[t].accepted
  /\ \A u \in Txns : u < t => txn[u].accepted
  /\ (shape = "complete") = (m \in Msgs)
  /\ LET r == [FreshTxn EXCEPT !.accepted = TRUE, !.shape = shape, !.msg = m]
     IN  txn' = [txn EXCEPT ![t] = IF cfg.plugins = "archival+metadata"
                                     THEN save_email_in_bucket(r)
                                     ELSE persist_email_details(r)]
  /\ UNCHANGED <<serverNotes, initHooks, cfg, blobs, docs>>

(***************************************************************************)
(* Stream capture (lines 224-234).                                         *)
(***************************************************************************)

\* captureStream.on('data', chunk => chunks.push(chunk))
message_stream_data(t, n) ==
  LET r == txn[t] IN
  /\ r.apc = "capture"
  /\ r.emitted + n <= Len(RawMessage(r.msg))
  /\ txn' = [txn EXCEPT ![t] =
       [r EXCEPT !.emitted = @ + n,
                 !.chunks = Append(@, SubSeq(RawMessage(r.msg), r.emitted + 1, r.emitted + n))]]
  /\ UNCHANGED <<serverNotes, initHooks, cfg, blobs, docs>>

\* captureStream.on('end', () => resolve(Buffer.concat(chunks))), and the
\* stage up to its next await: parseEmail(rawEmailBuffer).
message_stream_end(t) ==
  LET r == txn[t] IN
  /\ r.apc = "capture"
  /\ r.emitted = Len(RawMessage(r.msg))
  /\ txn' = [txn EXCEPT ![t] =
       [r EXCEPT !.apc = "parseEmail", !.streamState = "ended",
                 !.rawEmailBuffer = BufferConcat(r.chunks),
                 !.aIssued = Append(@, "parseEmail")]]
  /\ UNCHANGED <<serverNotes, initHooks, cfg, blobs, docs>>

\* The message stream emits 'error' before its end.  pipe() forwards data
\* and end only: captureStream emits neither 'end' nor 'error', so the
\* capture promise is never settled.
message_stream_error(t) ==
  LET r == txn[t] IN
  /\ r.apc = "capture"
  /\ txn' = [txn EXCEPT ![t] = [r EXCEPT !.apc = "stalled", !.chunks = <<>>,
                                          !.emitted = 0,
                                          !.streamState = "errored"]]
  /\ UNCHANGED <<serverNotes, initHooks, cfg, blobs, docs>>

\* captureStream.on('error', reject): the capture stream itself fails.
captureStream_error(t) ==
  LET r == txn[t] IN
  /\ r.apc = "capture"
  /\ txn' = [txn EXCEPT ![t] = save_catch([r EXCEPT !.chunks = <<>>, !.emitted = 0,
                                                   !.streamState = "unpiped"],
                                         "capture")]
  /\ UNCHANGED <<serverNotes, initHooks, cfg, blobs, docs>>


(***************************************************************************)
(* The Archival Stage after capture (lines 236-261).                       *)
(***************************************************************************)

\* await parseEmail(rawEmailBuffer) settles.  Resolved: the identifier, the
\* object name and the object metadata are computed and uploadEmailToStorage
\* issues emailObject.save.  Rejected: the catch block.
archival_parseEmail_settled(t, ok) ==
  LET r == txn[t]
      email == simpleParser(r.rawEmailBuffer)
      messageId == generateMessageId_storage(email, t)
  IN
  /\ r.apc = "parseEmail"
  /\ txn' = [txn EXCEPT ![t] =
       IF ok
         THEN [r EXCEPT !.apc = "save", !.chunks = <<>>, !.aMessageId = messageId,
                        !.aObjectMetadata = constructObjectMetadata(email, messageId),
                        !.aIssued = Append(@, "save")]
         ELSE save_catch([r EXCEPT !.chunks = <<>>], "parseEmail")]
  /\ UNCHANGED <<serverNotes, initHooks, cfg, blobs, docs>>

\* await emailObject.save(emailBuffer) settles (line 275).  Resolved: the
\* object is written and setMetadata is issued.
emailObject_save_settled(t, ok) ==
  LET r == txn[t] IN
  /\ r.apc = "save"
  /\ IF ok
       THEN /\ blobs' = BlobSave(blobs, BucketName, ObjectName(r.aMessageId), r.rawEmailBuffer)
            /\ txn' = [txn EXCEPT ![t] =
                 [r EXCEPT !.apc = "setMetadata", !.aIssued = Append(@, "setMetadata")]]
       ELSE /\ blobs' = blobs
            /\ txn' = [txn EXCEPT ![t] = save_catch(r, "save")]
  /\ UNCHANGED <<serverNotes, initHooks, cfg, docs>>

\* await emailObject.setMetadata(objectMetadata) settles (line 276), and the
\* rest of the stage: the reference is published and next is called.
emailObject_setMetadata_settled(t, ok, throws) ==
  LET r == txn[t] IN
  /\ r.apc = "setMetadata"
  /\ throws => ok /\ CanThrow(save_success_args(cfg.isSingleHandler))
  /\ IF ok
       THEN /\ blobs' = BlobSetMetadata(blobs, BucketName, ObjectName(r.aMessageId),
                                        r.aObjectMetadata)
            /\ txn' = [txn EXCEPT ![t] = save_publish_and_continue(r, throws)]
       ELSE /\ blobs' = blobs
            /\ txn' = [txn EXCEPT ![t] = save_catch(r, "setMetadata")]
  /\ UNCHANGED <<serverNotes, initHooks, cfg, docs>>

(***************************************************************************)
(* The Metadata Stage after its entry (lines 71-88).                       *)
(***************************************************************************)

\* await parseEmail(connection) settles.  simpleParser rejects when the
\* transaction has no message stream.  Resolved: the identifier and the
\* details are computed and the recipient query is issued; the firestore
\* plugin does not require crypto itself, so a draw of random bytes either
\* works or throws.
metadata_parseEmail_settled(t, ok, cryptoOk) ==
  LET r == txn[t]
      email == simpleParser(RawMessage(r.msg))
      messageId == ResolveMessageId(r.mStorageReference, email, t)
  IN
  /\ r.mpc = "parseEmail"
  /\ ok => HasMessageStream(r.shape)
  /\ ~cryptoOk => ok /\ DrawsRandom(r.mStorageReference, email)
  /\ txn' = [txn EXCEPT ![t] =
       IF ~ok THEN persist_catch(r, "parseEmail")
       ELSE IF ~cryptoOk THEN persist_catch(r, "generateMessageId")
       ELSE [r EXCEPT !.mpc = "get", !.mMessageId = messageId,
                      !.mMessageDetails =
                         constructMessageDetails(email, messageId, r.mStorageReference, t),
                      !.mIssued = Append(@, "get")]]
  /\ UNCHANGED <<serverNotes, initHooks, cfg, blobs, docs>>

\* docs[0]?.ref: a missing first document read without throwing.
FirstDocumentRefOptional(matches) ==
  [throws |-> FALSE, ref |-> IF matches = <<>> THEN "" ELSE matches[1].id]

\* (await query.get()).docs[0].ref (line 77): reading .ref of a missing
\* first document throws.
FirstDocumentRef(matches) ==
  IF matches = <<>> THEN [throws |-> TRUE, ref |-> ""]
                    ELSE [throws |-> FALSE, ref |-> matches[1].id]

\* await query.get() settles.  Resolved: the first match becomes the parent
\* and the document set is issued.
query_get_settled(t, ok) ==
  LET r == txn[t]
      first == FirstDocumentRef(QueryRecipients(r.mMessageDetails.to))
  IN
  /\ r.mpc = "get"
  /\ txn' = [txn EXCEPT ![t] =
       IF ~ok THEN persist_catch(r, "get")
       ELSE IF first.throws THEN persist_catch(r, "docs[0].ref")
       ELSE [r EXCEPT !.mpc = "set", !.mParent = first.ref,
                      !.mIssued = Append(@, "set")]]
  /\ UNCHANGED <<serverNotes, initHooks, cfg, blobs, docs>>

\* await ....doc(messageId).set(messageDetails) settles (lines 78-81), and
\* the rest of the stage: next(OK).
document_set_settled(t, ok, throws) ==
  LET r == txn[t] IN
  /\ r.mpc = "set"
  /\ throws => ok /\ CanThrow(persist_success_args)
  /\ IF ok
       THEN /\ docs' = DocumentSet(docs, r.mParent, r.mMessageId, r.mMessageDetails)
            /\ txn' = [txn EXCEPT ![t] = persist_continue(r, throws)]
       ELSE /\ docs' = docs
            /\ txn' = [txn EXCEPT ![t] = persist_catch(r, "set")]
  /\ UNCHANGED <<serverNotes, initHooks, cfg, blobs>>

(***************************************************************************)
(* The specification.                                                      *)
(***************************************************************************)
StageStep(t) ==
  \/ \E n \in 1..2 : message_stream_data(t, n)
  \/ message_stream_end(t)
  \/ message_stream_error(t)
  \/ captureStream_error(t)
  \/ \E ok \in BOOLEAN : archival_parseEmail_settled(t, ok)
  \/ \E ok \in BOOLEAN : emailObject_save_settled(t, ok)
  \/ \E ok, throws \in BOOLEAN : emailObject_setMetadata_settled(t, ok, throws)
  \/ \E ok, cryptoOk \in BOOLEAN : metadata_parseEmail_settled(t, ok, cryptoOk)
  \/ \E ok \in BOOLEAN : query_get_settled(t, ok)
  \/ \E ok, throws \in BOOLEAN : document_set_settled(t, ok, throws)

Next ==
  \/ \E h \in InitHooks : initialize_firestore(h)
  \/ \E h \in InitHooks : initialize_storage(h)
  \/ \E t \in Txns, shape \in ConnectionShapes, m \in Msgs \cup {0} :
       run_queue_hooks(t, shape, m)
  \/ \E t \in Txns : StageStep(t)

Spec == Init /\ [][Next]_vars

\* Every event a suspended run waits for (a chunk, the end or the error of
\* the stream, the settlement of a call) is eventually delivered.
FairSpec == Spec /\ \A t \in Txns : WF_vars(StageStep(t))


(***************************************************************************)
(* Vocabulary of the properties.                                           *)
(***************************************************************************)
IsSoftReject(args) == Len(args) = 2 /\ args[1] = DENYSOFT
IsAccept(args) == args = <<OK>>
IsProceed(args) == args = <<>>

ArchivalStarted(t) == txn[t].apc # "idle"
MetadataStarted(t) == txn[t].mpc # "idle"

\* The steps of a stage body that can fail, by the name the run records.
ArchivalBodySteps == {"capture", "parseEmail", "save", "setMetadata"}
MetadataBodySteps == {"parseEmail", "generateMessageId", "get", "docs[0].ref", "set"}

\* A step of the run's body has failed: a rejection reached the stage, or
\* the message stream errored under the capture.
ArchivalFailed(t) == txn[t].aFailed \in ArchivalBodySteps \/ txn[t].apc = "stalled"
MetadataFailed(t) == txn[t].mFailed \in MetadataBodySteps

\* The run signalled accept or proceed.
ArchivalSignalledSuccess(t) ==
  \E i \in DOMAIN txn[t].aCalls : IsAccept(txn[t].aCalls[i]) \/ IsProceed(txn[t].aCalls[i])
MetadataSignalledSuccess(t) ==
  \E i \in DOMAIN txn[t].mCalls : IsAccept(txn[t].mCalls[i]) \/ IsProceed(txn[t].mCalls[i])

Published(t) == txn[t].notes.storageReference # Absent

\* The document set of the run has completed.
DocumentWritten(t) ==
  /\ "set" \in {txn[t].mIssued[i] : i \in DOMAIN txn[t].mIssued}
  /\ txn[t].mpc = "returned"
  /\ txn[t].mFailed # "set"

\* The recipient query of the run has resolved with these matches.
QueryResolved(t) ==
  /\ "get" \in {txn[t].mIssued[i] : i \in DOMAIN txn[t].mIssued}
  /\ txn[t].mpc # "get"
  /\ txn[t].mFailed # "get"

DocumentsAt(parent, id) == {d \in docs : d.parent = parent /\ d.id = id}

(***************************************************************************)
(* C1.  Every run of the Archival Stage and of the Metadata Stage          *)
(* eventually invokes its continuation at least once, on every exit path,  *)
(* a message stream that errors before it ends included.                   *)
(***************************************************************************)
C1_ContinuationEventuallyInvoked ==
  \A t \in Txns :
    /\ ArchivalStarted(t) ~> (Len(txn[t].aCalls) >= 1)
    /\ MetadataStarted(t) ~> (Len(txn[t].mCalls) >= 1)

(***************************************************************************)
(* C2.  No run of either stage invokes its continuation more than once,    *)
(* also when a failure occurs after the success path has been entered.     *)
(***************************************************************************)
C2_ContinuationAtMostOnce ==
  \A t \in Txns : Len(txn[t].aCalls) <= 1 /\ Len(txn[t].mCalls) <= 1

C4_ReferenceIdentifierReused ==
  /\ \A t \in Txns :
       /\ MetadataStarted(t) /\ txn[t].shape # "noTransaction" =>
            txn[t].mStorageReference = txn[t].notes.storageReference
       /\ Published(t) /\ txn[t].mpc \in {"get", "set"} =>
            /\ txn[t].mMessageId = txn[t].notes.storageReference[1].messageId
            /\ txn[t].mMessageDetails.messageId = txn[t].notes.storageReference[1].messageId
       /\ Published(t) /\ DocumentWritten(t) =>
            /\ txn[t].mMessageId = txn[t].notes.storageReference[1].messageId
            /\ DocumentsAt(txn[t].mParent, txn[t].notes.storageReference[1].messageId) # {}
  /\ \A d \in docs : d.data.messageId = d.id

\* A message without Message-ID header, archived under a generated
\* identifier, has had its metadata document written.
C4_Witness ==
  \E t \in Txns :
    /\ Published(t) /\ DocumentWritten(t)
    /\ MessageCatalog[txn[t].msg].messageId = <<>>

(***************************************************************************)
(* C5.  Round trip: for a message whose 'to' address matches one recipient *)
(* record, after both stages have succeeded the recipient's sub-collection *)
(* holds exactly one document for the message's identifier, and its        *)
(* messageId, bucketName, objectName and storageUrl are the identifier,    *)
(* bucket, key and location of the object the Archival Stage uploaded.     *)
(***************************************************************************)
C5_RoundTrip ==
  \A t \in Txns :
    (/\ Published(t) /\ DocumentWritten(t)
     /\ Len(QueryRecipients(MessageCatalog[txn[t].msg].to)) = 1) =>
      LET ref == txn[t].notes.storageReference[1]
          parent == QueryRecipients(MessageCatalog[txn[t].msg].to)[1].id
          found == DocumentsAt(parent, ref.messageId)
      IN  /\ Cardinality(found) = 1
          /\ \A d \in found :
               /\ {"bucketName", "objectName", "storageUrl"} \subseteq DOMAIN d.data
               /\ d.data.messageId = ref.messageId
               /\ \E o \in blobs :
                    /\ o.body = RawMessage(txn[t].msg)
                    /\ o.metadata # EmptyRecord => o.metadata.metadata.messageId = d.data.messageId
                    /\ o.bucketName = d.data.bucketName
                    /\ o.objectName = d.data.objectName
                    /\ StorageUrl(o.bucketName, o.objectName) = d.data.storageUrl

C5_Witness ==
  \E t \in Txns :
    /\ Published(t) /\ DocumentWritten(t)
    /\ txn[t].mCalls = <<<<OK>>>>
    /\ Len(QueryRecipients(MessageCatalog[txn[t].msg].to)) = 1

(***************************************************************************)
(* C6.  Idempotence: two runs of the Metadata Stage for the same message   *)
(* identifier and the same recipient leave exactly one document under that *)
(* recipient and identifier.                                               *)
(***************************************************************************)
C6_MetadataWriteIdempotent ==
  \A t, u \in Txns :
    (/\ t # u /\ DocumentWritten(t) /\ DocumentWritten(u)
     /\ txn[t].mMessageId = txn[u].mMessageId
     /\ txn[t].mParent = txn[u].mParent) =>
      Cardinality(DocumentsAt(txn[t].mParent, txn[t].mMessageId)) = 1

C6_Witness ==
  \E t, u \in Txns :
    /\ t # u /\ DocumentWritten(t) /\ DocumentWritten(u)
    /\ txn[t].mMessageId = txn[u].mMessageId
    /\ txn[t].mParent = txn[u].mParent

(***************************************************************************)
(* C7.  Re-invoking the Archival Stage with the same message writes the    *)
(* same object key: for every message, with or without Message-ID, the     *)
(* blob store holds at most one object for it.                             *)
(***************************************************************************)
C7_OneObjectPerMessage ==
  \A m \in Msgs : Cardinality({o \in blobs : o.body = RawMessage(m)}) <= 1

(***************************************************************************)
(* C8.  When the recipient lookup returns no record, the Metadata Stage    *)
(* issues no document set, writes no document and ends with a              *)
(* soft-reject, never with accept or proceed.                              *)
(***************************************************************************)
C8_ZeroMatchesFails ==
  /\ \A t \in Txns :
       QueryResolved(t) /\ Len(QueryRecipients(txn[t].mMessageDetails.to)) = 0 =>
         /\ txn[t].mIssued = <<"parseEmail", "get">>
         /\ txn[t].mpc = "returned"
         /\ Len(txn[t].mCalls) >= 1
         /\ \A i \in DOMAIN txn[t].mCalls : IsSoftReject(txn[t].mCalls[i])
  /\ \A d \in docs : Len(QueryRecipients(d.data.to)) # 0

C8_Witness ==
  \E t \in Txns :
    QueryResolved(t) /\ Len(QueryRecipients(txn[t].mMessageDetails.to)) = 0

(***************************************************************************)
(* C9.  When the recipient lookup returns more than one record, the        *)
(* Metadata Stage writes no document under any of them and ends with a     *)
(* soft-reject rather than an accept.                                      *)
(***************************************************************************)
C9_AmbiguousMatchesFail ==
  /\ \A t \in Txns :
       QueryResolved(t) /\ Len(QueryRecipients(txn[t].mMessageDetails.to)) > 1 =>
         /\ txn[t].mIssued = <<"parseEmail", "get">>
         /\ \A i \in DOMAIN txn[t].mCalls : IsSoftReject(txn[t].mCalls[i])
  /\ \A d \in docs : Len(QueryRecipients(d.data.to)) <= 1

(***************************************************************************)
(* C10.  Without a transaction the Metadata Stage issues no parse, no      *)
(* query and no write and calls next with no argument; without a           *)
(* transaction or message stream the Archival Stage issues no call,        *)
(* publishes no reference and calls next with no argument.                 *)
(***************************************************************************)
C10_NoTransactionNoOp ==
  \A t \in Txns :
    /\ MetadataStarted(t) /\ txn[t].shape = "noTransaction" =>
         /\ txn[t].mpc = "returned"
         /\ txn[t].mIssued = <<>>
         /\ txn[t].mCalls = <<NoArgs>>
         /\ \A d \in docs : d.data.receivedDate # Now(t)
    /\ ArchivalStarted(t) /\ txn[t].shape \in {"noTransaction", "noStream"} =>
         /\ txn[t].apc = "returned"
         /\ txn[t].aIssued = <<>>
         /\ txn[t].chunks = <<>> /\ txn[t].rawEmailBuffer = <<>>
         /\ ~Published(t)
         /\ txn[t].aCalls = <<NoArgs>>

\* Both stages have run without a transaction while another transaction
\* has written to the stores.
C10_Witness ==
  \E t, u \in Txns :
    /\ txn[t].shape = "noTransaction"
    /\ ArchivalStarted(t) /\ MetadataStarted(t)
    /\ DocumentWritten(u)

(***************************************************************************)
(* C11.  With transactions processed concurrently, the StorageReference    *)
(* read by the Metadata Stage of a message is the one the Archival Stage   *)
(* of the same message published, or absent; a reference published for    *)
(* one message is never read by, or written into the document of, another. *)
(***************************************************************************)
OwnReference(t) ==
  StorageReference(BucketName, ObjectName(txn[t].aMessageId), txn[t].aMessageId)

C11_ReferenceStaysWithItsMessage ==
  /\ \A t \in Txns :
       /\ Published(t) =>
            /\ txn[t].apc = "returned"
            /\ txn[t].notes.storageReference = <<OwnReference(t)>>
       /\ txn[t].mStorageReference # Absent =>
            /\ Published(t)
            /\ txn[t].mStorageReference = <<OwnReference(t)>>
       /\ "objectName" \in DOMAIN txn[t].mMessageDetails =>
            txn[t].mMessageDetails.objectName = OwnReference(t).objectName
  /\ \A d \in docs :
       "objectName" \in DOMAIN d.data =>
         \E t \in Txns :
           /\ d.data.receivedDate = Now(t)
           /\ Published(t)
           /\ d.data.objectName = OwnReference(t).objectName
           /\ d.data.storageUrl = OwnReference(t).storageUrl
           /\ d.id = OwnReference(t).messageId

\* Two metadata runs are in flight at once, each holding the reference of
\* its own message, and the two references differ.
C11_Witness ==
  \E t, u \in Txns :
    /\ t # u
    /\ txn[t].mpc \in {"parseEmail", "get", "set"}
    /\ txn[u].mpc \in {"parseEmail", "get", "set"}
    /\ txn[t].mStorageReference # Absent /\ txn[u].mStorageReference # Absent
    /\ txn[t].mStorageReference # txn[u].mStorageReference

(***************************************************************************)
(* C12.  If the message stream errors before capture completes, the        *)
(* Archival Stage fails fast: the error reaches the stage as a failure of  *)
(* the capture step and is answered with a soft-reject, no buffer is       *)
(* produced, no blob call is issued, no StorageReference is published and  *)
(* the message is neither accepted nor passed on.                          *)
(***************************************************************************)
C12_StreamErrorFailsFast ==
  \A t \in Txns :
    txn[t].streamState = "errored" =>
      /\ txn[t].aFailed = "capture"
      /\ Len(txn[t].aCalls) >= 1
      /\ \A i \in DOMAIN txn[t].aCalls : IsSoftReject(txn[t].aCalls[i])
      /\ txn[t].rawEmailBuffer = <<>>
      /\ txn[t].aIssued = <<>>
      /\ ~Published(t)
      /\ ~MetadataStarted(t)

\* Both blob calls of the run were issued and both succeeded.
BodyAndMetadataStored(t) ==
  /\ txn[t].aIssued = <<"parseEmail", "save", "setMetadata">>
  /\ txn[t].apc = "returned"
  /\ txn[t].aFailed \notin {"save", "setMetadata"}

(***************************************************************************)
(* C13.  The Archival Stage publishes a StorageReference if and only if    *)
(* both the body upload and the metadata attachment succeeded, and it does *)
(* so before it invokes its continuation: whoever runs after a successful  *)
(* continuation call finds the reference.  A run whose body was written    *)
(* but whose metadata attachment failed leaves the notes unchanged and     *)
(* signals a soft-reject.                                                  *)
(***************************************************************************)
C13_PublishedIffBothStored ==
  \A t \in Txns :
    /\ Published(t) <=> BodyAndMetadataStored(t)
    /\ BodyAndMetadataStored(t) =>
         /\ txn[t].aCalls # <<>>
         /\ txn[t].aCalls[1] \in {NoArgs, AcceptArgs}
    /\ (txn[t].mpc # "idle" /\ BodyAndMetadataStored(t)) =>
         txn[t].mStorageReference # Absent
    /\ txn[t].aFailed = "setMetadata" =>
         /\ txn[t].notes.storageReference = Absent
         /\ txn[t].aCalls = <<save_catch_args>>

C13_Witness ==
  \E t, u \in Txns :
    /\ Published(t) /\ txn[t].mpc # "idle" /\ txn[t].aCalls = <<NoArgs>>
    /\ txn[u].aFailed = "setMetadata"
    /\ \E o \in blobs :
         /\ o.objectName = ObjectName(txn[u].aMessageId)
         /\ o.body = txn[u].rawEmailBuffer
         /\ o.metadata = EmptyRecord

(***************************************************************************)
(* C14.  On a successful archive the success branch calls the continuation *)
(* with the accept code when queue.isSingleHandler is set and with no      *)
(* argument when it is not; a run in which nothing failed makes that call  *)
(* and no other, and no run of a complete transaction signals accept or    *)
(* proceed with any other argument.                                        *)
(***************************************************************************)
C14_SuccessArgumentFollowsMode ==
  \A t \in Txns :
    LET expected == IF cfg.isSingleHandler THEN <<OK>> ELSE <<>> IN
    /\ BodyAndMetadataStored(t) =>
         /\ txn[t].aCalls # <<>>
         /\ txn[t].aCalls[1] = expected
    /\ (BodyAndMetadataStored(t) /\ txn[t].aFailed = "") => txn[t].aCalls = <<expected>>
    /\ txn[t].shape = "complete" =>
         \A i \in DOMAIN txn[t].aCalls :
           (IsAccept(txn[t].aCalls[i]) \/ IsProceed(txn[t].aCalls[i])) =>
             /\ txn[t].aCalls[i] = expected
             /\ BodyAndMetadataStored(t)

C14_Witness ==
  \E t \in Txns :
    /\ cfg.isSingleHandler
    /\ BodyAndMetadataStored(t)
    /\ txn[t].aFailed = ""
    /\ txn[t].aCalls = <<AcceptArgs>>

\* The number of times call c was issued in the history h.
TimesIssued(h, c) == Cardinality({i \in DOMAIN h : h[i] = c})

\* The last call issued in the history h.
LastIssued(h) == IF h = <<>> THEN "" ELSE h[Len(h)]

(***************************************************************************)
(* C15.  No stage retries in process: an archival run issues the body      *)
(* upload and the metadata attachment at most once each, a metadata run    *)
(* issues the recipient query and the document set at most once each, and  *)
(* a run whose storage call failed issues no further call after it and     *)
(* answers with the soft-reject only.                                      *)
(***************************************************************************)
C15_NoInProcessRetry ==
  \A t \in Txns :
    /\ \A c \in {"parseEmail", "save", "setMetadata"} : TimesIssued(txn[t].aIssued, c) <= 1
    /\ \A c \in {"parseEmail", "get", "set"} : TimesIssued(txn[t].mIssued, c) <= 1
    /\ txn[t].aFailed \in {"save", "setMetadata"} =>
         /\ LastIssued(txn[t].aIssued) = txn[t].aFailed
         /\ txn[t].apc = "returned"
         /\ txn[t].aCalls = <<save_catch_args>>
    /\ txn[t].mFailed \in {"get", "set"} =>
         /\ LastIssued(txn[t].mIssued) = txn[t].mFailed
         /\ txn[t].mpc = "returned"
         /\ txn[t].mCalls = <<persist_catch_args>>

C15_Witness ==
  \E t, u \in Txns :
    /\ txn[t].aFailed = "save" /\ txn[t].aIssued = <<"parseEmail", "save">>
    /\ txn[u].mFailed = "set" /\ txn[u].mIssued = <<"parseEmail", "get", "set">>

(***************************************************************************)
(* C16.  Whatever the order in which init_master and init_child run the    *)
(* two initializers, each storage client is constructed at most once (the  *)
(* handle in server.notes is the first one constructed) and later          *)
(* invocations reuse it; every invocation of an init hook has invoked its  *)
(* continuation; and no message-processing stage constructs or replaces a  *)
(* client: the handles are the same whatever the transactions have done.   *)
(***************************************************************************)
C16_ClientsConstructedOnce ==
  /\ serverNotes.firestore \in {NoClient, FirstClient}
  /\ serverNotes.gcpStorage \in {NoClient, FirstClient}
  /\ \A p \in Plugins, h \in InitHooks : initHooks[p][h] \in {"notRun", "continued"}
  /\ (\E h \in InitHooks : initHooks["firestore"][h] # "notRun") <=>
       serverNotes.firestore = FirstClient
  /\ (\E h \in InitHooks : initHooks["gcp_storage"][h] # "notRun") <=>
       serverNotes.gcpStorage = FirstClient
  /\ (\E t \in Txns : txn[t].accepted) =>
       /\ serverNotes.firestore = FirstClient
       /\ serverNotes.gcpStorage = FirstClient

C16_Witness ==
  /\ \A p \in Plugins, h \in InitHooks : initHooks[p][h] = "continued"
  /\ serverNotes = [firestore |-> FirstClient, gcpStorage |-> FirstClient]
  /\ \E t \in Txns : Published(t) /\ DocumentWritten(t)

\* An identifier without its enclosing angle brackets: the leading '<' and
\* the trailing '>' removed, every other character kept.
StripEnclosingBrackets(s) ==
  LET from == IF s # <<>> /\ Head(s) = 60 THEN 2 ELSE 1
      to   == IF s # <<>> /\ s[Len(s)] = 62 THEN Len(s) - 1 ELSE Len(s)
  IN  SubSeq(s, from, to)

EmbeddedIdentifier(t) == MessageCatalog[txn[t].msg].messageId

(***************************************************************************)
(* C17.  For a parsed email that carries an embedded identifier, the       *)
(* resolver of each stage returns the identifier without its enclosing     *)
(* angle brackets and with every other character verbatim, the same result *)
(* on every run for the same embedded identifier, and the two stages'      *)
(* resolvers agree.                                                        *)
(***************************************************************************)
C17_EmbeddedIdentifierVerbatim ==
  \A t \in Txns :
    (txn[t].shape = "complete" /\ EmbeddedIdentifier(t) # <<>>) =>
      /\ txn[t].aMessageId # <<>> =>
           txn[t].aMessageId = StripEnclosingBrackets(EmbeddedIdentifier(t))
      /\ txn[t].mMessageId # <<>> =>
           txn[t].mMessageId = StripEnclosingBrackets(EmbeddedIdentifier(t))
      /\ \A u \in Txns :
           txn[u].msg = txn[t].msg =>
             /\ (txn[t].aMessageId # <<>> /\ txn[u].aMessageId # <<>>) =>
                  txn[t].aMessageId = txn[u].aMessageId
             /\ (txn[t].aMessageId # <<>> /\ txn[u].mMessageId # <<>>) =>
                  txn[t].aMessageId = txn[u].mMessageId

\* The bytes the message stream of transaction t has delivered, in order.
DeliveredBytes(t) == SubSeq(RawMessage(txn[t].msg), 1, txn[t].emitted)

(***************************************************************************)
(* C18.  When the message stream ends without error, the buffer Stream     *)
(* Capture produces is the bytes the stream delivered, chunk by chunk in   *)
(* delivery order, nothing dropped and nothing reordered; and while the    *)
(* capture is running no parse and no upload has been issued: they start   *)
(* only when the stream has ended, and the body uploaded is that buffer.   *)
(***************************************************************************)
C18_BufferIsConcatenation ==
  \A t \in Txns :
    /\ txn[t].streamState = "ended" =>
         /\ txn[t].rawEmailBuffer = DeliveredBytes(t)
         /\ txn[t].rawEmailBuffer = RawMessage(txn[t].msg)
    /\ txn[t].streamState \in {"unread", "flowing", "errored", "unpiped"} =>
         /\ txn[t].rawEmailBuffer = <<>>
         /\ txn[t].aIssued = <<>>
         /\ txn[t].aMessageId = <<>>
    /\ "setMetadata" \in {txn[t].aIssued[i] : i \in DOMAIN txn[t].aIssued} =>
         \E o \in blobs :
           /\ o.objectName = ObjectName(txn[t].aMessageId)
           /\ o.body = DeliveredBytes(t)

C18_Witness ==
  \E t \in Txns :
    /\ txn[t].streamState = "ended"
    /\ txn[t].apc = "parseEmail"
    /\ Len(txn[t].chunks) = 2
    /\ txn[t].rawEmailBuffer = txn[t].chunks[1] \o txn[t].chunks[2]

(***************************************************************************)
(* C19.  Referential integrity of the metadata documents: every document   *)
(* that carries storage-reference fields (bucketName, objectName,          *)
(* storageUrl) names an object of that bucket under which a message body   *)
(* has been written; no document points at an object never uploaded.       *)
(***************************************************************************)
C19_DocumentsPointAtUploadedObjects ==
  \A d \in docs :
    "objectName" \in DOMAIN d.data =>
      /\ {"bucketName", "storageUrl"} \subseteq DOMAIN d.data
      /\ \E o \in blobs :
           /\ o.bucketName = d.data.bucketName
           /\ o.objectName = d.data.objectName
           /\ d.data.storageUrl = StorageUrl(o.bucketName, o.objectName)
           /\ \E m \in Msgs : o.body = RawMessage(m)

C19_Witness ==
  \E d \in docs, o \in blobs :
    /\ "objectName" \in DOMAIN d.data
    /\ o.objectName = d.data.objectName
    /\ o.body # <<>>

(***************************************************************************)
(* C20.  When archival is the sole handler, a successfully archived        *)
(* message is accepted by the Archival Stage itself and the pipeline stops *)
(* there: its StorageReference is published, but the Metadata Stage is not *)
(* run for it and no metadata document is written for it.  A document for  *)
(* a successfully archived message exists only in pass-through mode.       *)
(***************************************************************************)
C20_SoleHandlerStopsPipeline ==
  /\ \A t \in Txns :
       (cfg.plugins = "archival+metadata" /\ cfg.isSingleHandler
          /\ BodyAndMetadataStored(t)) =>
         /\ Published(t)
         /\ txn[t].aCalls[1] = AcceptArgs
         /\ txn[t].mpc = "idle"
         /\ txn[t].mIssued = <<>>
         /\ txn[t].mCalls = <<>>
         /\ \A d \in docs : d.id # txn[t].aMessageId
  /\ \A t \in Txns :
       (BodyAndMetadataStored(t) /\ DocumentWritten(t)) => ~cfg.isSingleHandler
  /\ \A d \in docs : "objectName" \in DOMAIN d.data => ~cfg.isSingleHandler

C20_Witness ==
  \E t \in Txns :
    /\ cfg.plugins = "archival+metadata" /\ cfg.isSingleHandler
    /\ Published(t)
    /\ txn[t].aCalls = <<AcceptArgs>>
    /\ txn[t].mpc = "idle"
    /\ \E o \in blobs : o.objectName = ObjectName(txn[t].aMessageId)
    /\ docs = {}

====
